---- MODULE Spec2Model ----
(***************************************************************************)
(* Credential and session lifecycle of the user routes                     *)
(* (src/routes/user/user.service.ts and user.controller.ts): signup,       *)
(* login, email verification, refresh-token rotation, logout and the       *)
(* OTP password reset.                                                     *)
(*                                                                         *)
(* Every handler is one action, except where the code awaits a store or    *)
(* notifier call between a read and the write that depends on it           *)
(* (addUser, refreshAccessToken, forgotPassword): those are split at the   *)
(* await so that concurrent requests interleave as they do on the event    *)
(* loop.  Time is in milliseconds, as Date.now().                          *)
(***************************************************************************)
EXTENDS Integers, Sequences, FiniteSets, TLC

\* ------------------------------------------------------------------ bounds
MaxTicks == 2
MaxTokens == 2
MaxWeeks == 1

\* the requests that can be in flight at once
Procs == {"r1", "r2"}
\* the address that signs up, and one that never does
Emails == {"a@x.com"}
EmailInputs == Emails \cup {"nobody@x.com"}
Passwords == {"P@ssw0rd", "hunter2"}
\* values the verification-token and OTP generators can draw, and what a
\* caller can send
VTokenValues == {"T1"}
VTokenInputs == VTokenValues \cup {"", "bogus"}
OtpValues == {"0a1b2c3d4e5f"}
OtpInputs == OtpValues \cup {"ffffffffffff"}

\* ------------------------------------------------------- program constants
OtpTtl == 5 * 60 * 1000
CookieMaxAge == 7 * 24 * 60 * 60 * 1000
RefreshTtlSec == 7 * 24 * 60 * 60
VerificationTemplate == 1
OtpTemplate == 2

\* ----------------------------------------------------------- value helpers
None == <<>>
Some(v) == <<v>>
IsSome(o) == o # <<>>

\* bcrypt.hash / bcrypt.compare: a one-way tagged value, compared by rehash
Hash(secret) == <<"bcrypt", secret>>
bcryptCompare(secret, hashed) == hashed = Hash(secret)

\* JavaScript values in a boolean context (if (!x)): a boolean is itself, a
\* Promise object is truthy whatever it will resolve to
Promise(b) == [kind |-> "promise", value |-> b]
Truthy(x) == IF x.kind = "boolean" THEN x.value ELSE TRUE

VARIABLES users, blacklist, mail, cookies, now, inflight, last

vars == <<users, blacklist, mail, cookies, now, inflight, last>>

\* ------------------------------------------------------------- user store
UserIdx(email) == {i \in 1..Len(users) : users[i].email = email}

\* userDao.checkUserEmailExist / getUserByEmail / getUserByEmailInsecure:
\* the index of the first document with the email, or 0
FindIdx(email) == IF UserIdx(email) = {} THEN 0
                  ELSE CHOOSE i \in UserIdx(email) : \A j \in UserIdx(email) : i <= j

checkUserEmailExist(email) == FindIdx(email) # 0

getUserByEmailInsecure(email) == FindIdx(email)

getUserByEmail(email) == FindIdx(email)

\* the unique index on email: an insert of a second document is rejected
DuplicateKey(email) == UserIdx(email) # {}

NewUser(email, password, vtoken) ==
    [ email |-> email,
      password |-> Hash(password),
      isVerified |-> FALSE,
      verificationToken |-> vtoken,
      lastLogin |-> None,
      otp |-> None,
      otpExpires |-> None ]

\* user.comparePassword(candidate)
comparePassword(user, candidate) == bcryptCompare(candidate, user.password)

\* ------------------------------------------------------------------ tokens
NowSec == now \div 1000

AccessToken(email) == [typ |-> "access", email |-> email, iat |-> NowSec]

RefreshToken(email) ==
    [typ |-> "refresh", email |-> email, sig |-> "signed", exp |-> NowSec + RefreshTtlSec]

generateTokens(email) ==
    [accessToken |-> AccessToken(email), refreshToken |-> RefreshToken(email)]

Malformed == [typ |-> "refresh", email |-> "", sig |-> "malformed", exp |-> 0]

Forge(t) == [t EXCEPT !.sig = "forged"]

\* decodeRefreshToken: "JsonWebTokenError", "TokenExpiredError" or "ok"
DecodeError(token) ==
    IF token.sig # "signed" THEN "JsonWebTokenError"
    ELSE IF NowSec >= token.exp THEN "TokenExpiredError"
    ELSE "ok"

Blacklisted(token) == \E i \in 1..Len(blacklist) : blacklist[i].token = token

\* userDao.blacklistToken: an idempotent insert
blacklistToken(token, expiry) ==
    IF Blacklisted(token) THEN blacklist
    ELSE Append(blacklist, [token |-> token, exp |-> expiry])

\* --------------------------------------------------------------- responses
NoReq == [pc |-> "idle", email |-> "", password |-> "", token |-> Malformed,
          otp |-> "", otpExpires |-> 0]

\* what a service call returned or threw, with the side effects it had on
\* the response object (cookie) and the notifier (sent)
Response(op, code, message) ==
    [ op |-> op, code |-> code, message |-> message, thrown |-> FALSE,
      accessToken |-> None, cookie |-> None, sent |-> FALSE, arg |-> None ]

\* the same outcome, with the request's secret (password, token, OTP) noted
For(r, arg) == [r EXCEPT !.arg = Some(arg)]

FormatSuccess(op, message) == Response(op, 200, message)
FormatNotFound(op, message) == Response(op, 404, message)
FormatBadRequest(op, message) == Response(op, 400, message)
FormatUnAuthorized(op, message) == Response(op, 401, message)
FormatError(op, code, message) == Response(op, code, message)

\* throw new APIError({message, status}) / a rejected await
Throw(op, code, message) == [Response(op, code, message) EXCEPT !.thrown = TRUE]

VerificationMail(email, vtoken) ==
    [to |-> email, templateId |-> VerificationTemplate, param |-> vtoken]

OtpMail(email, otp) == [to |-> email, templateId |-> OtpTemplate, param |-> otp]

\* res.redirect(env.FRONTEND_LOGIN_URL)
Redirect == 302

\* the status the handler answers with: verifyEmailHandler discards the
\* service's result and redirects, the others send result.code (a thrown
\* error goes to next(error) with its own status)
HttpStatus(r) == IF r.op = "verify" /\ ~r.thrown THEN Redirect ELSE r.code

Init ==
    /\ users = <<>>
    /\ blacklist = <<>>
    /\ mail = None
    /\ cookies = {}
    /\ now = 0
    /\ inflight = [p \in Procs |-> NoReq]
    /\ last = Response("none", 0, "")

Idle(p) == inflight[p].pc = "idle"

\* if (!errors.isEmpty()) throw new APIError({ status: 400 }): the service is
\* not called
BodyInvalid(op) ==
    /\ last' = Throw(op, 400, "bodyInvalid")
    /\ UNCHANGED <<users, blacklist, mail, cookies, now, inflight>>

\* ------------------------------------------------------------------ signup
\* addUser without the existence check
addUser_noExistCheck(p, email, password) ==
    /\ Idle(p)
    /\ inflight' = [inflight EXCEPT ![p] =
                      [NoReq EXCEPT !.pc = "addUser_save", !.email = email,
                                    !.password = password]]
    /\ UNCHANGED <<users, blacklist, mail, cookies, now, last>>

\* addUser up to the await of saveUser: the existence check
addUser(p, email, password) ==
    /\ Idle(p)
    /\ IF checkUserEmailExist(email)
       THEN /\ last' = For(Throw("signup", 400, "Account already exists with this email."),
                            password)
            /\ UNCHANGED inflight
       ELSE /\ inflight' = [inflight EXCEPT ![p] =
                              [NoReq EXCEPT !.pc = "addUser_save", !.email = email,
                                            !.password = password]]
            /\ UNCHANGED last
    /\ UNCHANGED <<users, blacklist, mail, cookies, now>>

userSignupHandler(p, valid, email, password) ==
    IF ~valid
    THEN Idle(p) /\ BodyInvalid("signup")
    ELSE addUser(p, email, password)

\* a MongoError answered like any other unexpected error
MongoErrorStatus_internal == 400 + 100

\* status the signup handler answers a MongoError with
MongoErrorStatus == 400

\* saveUser resolves: the insert, the verification mail and the response;
\* a duplicate-key MongoError is answered by the handler's catch
addUserSave(p) ==
    /\ inflight[p].pc = "addUser_save"
    /\ inflight' = [inflight EXCEPT ![p] = NoReq]
    /\ IF DuplicateKey(inflight[p].email)
       THEN /\ last' = For(Throw("signup", MongoErrorStatus, "MongoError"),
                            inflight[p].password)
            /\ UNCHANGED <<users, mail>>
       ELSE \E vt \in VTokenValues :
            /\ users' = Append(users, NewUser(inflight[p].email, inflight[p].password, vt))
            /\ mail' = Some(VerificationMail(inflight[p].email, vt))
            /\ last' = For([FormatSuccess("signup", "User created successfully")
                               EXCEPT !.sent = TRUE], inflight[p].password)
    /\ UNCHANGED <<blacklist, cookies, now>>

\* ------------------------------------------------------------------- login
\* loginOutcome without the password check
loginOutcome_noPasswordCheck(user, password) ==
    IF ~user.isVerified THEN "forbidden" ELSE "ok"

\* loginOutcome with the password checked before the verification flag
loginOutcome_passwordFirst(user, password) ==
    IF ~comparePassword(user, password) THEN "unauthorized"
    ELSE IF ~user.isVerified THEN "forbidden"
    ELSE "ok"

\* loginUser, lines 79-95: the verification check comes before the
\* password check
loginOutcome(user, password) ==
    LET isPasswordMatch == comparePassword(user, password)
        isVerified == user.isVerified
    IN  IF ~isVerified THEN "forbidden"
        ELSE IF ~isPasswordMatch THEN "unauthorized"
        ELSE "ok"

\* loginUser that issues the tokens without recording lastLogin
loginUser_noLastLogin(email, password) ==
    LET idx == getUserByEmailInsecure(email) IN
    IF idx = 0
    THEN /\ last' = For(FormatNotFound("login", "User not found"), password)
         /\ UNCHANGED <<users, blacklist, mail, cookies, now, inflight>>
    ELSE
      LET user == users[idx]
          outcome == loginOutcome(user, password)
          tokens == generateTokens(user.email)
      IN
      IF outcome = "forbidden"
      THEN /\ mail' = Some(VerificationMail(user.email, user.verificationToken))
           /\ last' = For([FormatError("login", 403,
                              "Email not verified. Verification link sent to your email.")
                              EXCEPT !.sent = TRUE], password)
           /\ UNCHANGED <<users, blacklist, cookies, now, inflight>>
      ELSE IF outcome = "unauthorized"
      THEN /\ last' = For(FormatUnAuthorized("login", "Invalid credentials"), password)
           /\ UNCHANGED <<users, blacklist, mail, cookies, now, inflight>>
      ELSE /\ Cardinality(cookies \cup {tokens.refreshToken}) <= MaxTokens
           /\ cookies' = cookies \cup {tokens.refreshToken}
           /\ last' = For([FormatSuccess("login", "User login successful")
                              EXCEPT !.accessToken = Some(tokens.accessToken),
                                     !.cookie = Some(tokens.refreshToken)], password)
           /\ UNCHANGED <<users, blacklist, mail, now, inflight>>

loginUser(email, password) ==
    LET idx == getUserByEmailInsecure(email) IN
    IF idx = 0
    THEN /\ last' = For(FormatNotFound("login", "User not found"), password)
         /\ UNCHANGED <<users, blacklist, mail, cookies, now, inflight>>
    ELSE
      LET user == users[idx]
          outcome == loginOutcome(user, password)
          tokens == generateTokens(user.email)
      IN
      IF outcome = "forbidden"
      THEN /\ mail' = Some(VerificationMail(user.email, user.verificationToken))
           /\ last' = For([FormatError("login", 403,
                              "Email not verified. Verification link sent to your email.")
                              EXCEPT !.sent = TRUE], password)
           /\ UNCHANGED <<users, blacklist, cookies, now, inflight>>
      ELSE IF outcome = "unauthorized"
      THEN /\ last' = For(FormatUnAuthorized("login", "Invalid credentials"), password)
           /\ UNCHANGED <<users, blacklist, mail, cookies, now, inflight>>
      ELSE /\ Cardinality(cookies \cup {tokens.refreshToken}) <= MaxTokens
           /\ users' = [users EXCEPT ![idx].lastLogin = Some(now)]
           /\ cookies' = cookies \cup {tokens.refreshToken}
           /\ last' = For([FormatSuccess("login", "User login successful")
                              EXCEPT !.accessToken = Some(tokens.accessToken),
                                     !.cookie = Some(tokens.refreshToken)], password)
           /\ UNCHANGED <<blacklist, mail, now, inflight>>

userLoginHandler(valid, email, password) ==
    IF ~valid
    THEN BodyInvalid("login")
    ELSE loginUser(email, password)

\* ------------------------------------------------------------ verify email
\* markVerified without the token being cleared
markVerified_keepToken(user) == [user EXCEPT !.isVerified = TRUE]

\* markVerified that clears the token without setting the flag
markVerified_tokenOnly(user) == [user EXCEPT !.verificationToken = ""]

\* verifyEmail, lines 135-136
markVerified(user) == [user EXCEPT !.isVerified = TRUE, !.verificationToken = ""]

verifyEmail(token, email) ==
    LET idx == getUserByEmailInsecure(email) IN
    IF idx = 0
    THEN /\ last' = For(FormatNotFound("verify", "User not found"), token)
         /\ UNCHANGED <<users, blacklist, mail, cookies, now, inflight>>
    ELSE IF users[idx].verificationToken = token
    THEN /\ users' = [users EXCEPT ![idx] = markVerified(users[idx])]
         /\ last' = For(FormatSuccess("verify", "Email verified successfully"), token)
         /\ UNCHANGED <<blacklist, mail, cookies, now, inflight>>
    ELSE /\ last' = For(FormatBadRequest("verify", "Invalid verification link"), token)
         /\ UNCHANGED <<users, blacklist, mail, cookies, now, inflight>>

verifyEmailHandler(valid, token, email) ==
    IF ~valid
    THEN BodyInvalid("verify")
    ELSE IF email = ""
    THEN /\ last' = Throw("verify", 400, "Invalid verification link")
         /\ UNCHANGED <<users, blacklist, mail, cookies, now, inflight>>
    ELSE verifyEmail(token, email)

\* ----------------------------------------------------------------- refresh
\* the tokens a client can present: the ones it was handed, tampered copies
\* of them, and a string that is no token at all
TokenInputs == cookies \cup {Forge(t) : t \in cookies} \cup {Malformed}

\* the verifyRefreshToken middleware in front of the refresh route: the
\* token decodes, is not blacklisted and names a user
verifyRefreshToken(token) ==
    /\ DecodeError(token) = "ok"
    /\ ~Blacklisted(token)
    /\ getUserByEmail(token.email) # 0

\* the handler up to the service's await of blacklistToken
refreshAccessTokenHandler(p, valid, token) ==
    /\ Idle(p)
    /\ IF ~verifyRefreshToken(token)
       THEN /\ last' = For(Throw("refresh", 401, "verifyRefreshToken"), token)
            /\ UNCHANGED <<users, blacklist, mail, cookies, now, inflight>>
       ELSE IF ~valid
       THEN BodyInvalid("refresh")
       ELSE /\ inflight' = [inflight EXCEPT ![p] =
                              [NoReq EXCEPT !.pc = "refresh_blacklist", !.token = token,
                                            !.email = token.email]]
            /\ UNCHANGED <<users, blacklist, mail, cookies, now, last>>

\* consumeToken with expiryTimestamp left at its initial 0
consumeToken_zeroExpiry(oldToken) == blacklistToken(oldToken, 0)

\* consumeToken without the blacklist insert
consumeToken_skipped(oldToken) == blacklist

\* refreshAccessToken, lines 152-156: the expiry decoded from the old token
\* and the blacklist with the old token recorded under it
consumeToken(oldToken) ==
    LET expiryTimestamp == oldToken.exp IN blacklistToken(oldToken, expiryTimestamp)

\* refreshAccessToken that gives up when the old token is already blacklisted
refreshAccessToken_stopOnBlacklisted(p) ==
    /\ inflight[p].pc = "refresh_blacklist"
    /\ LET oldToken == inflight[p].token IN
       IF DecodeError(oldToken) # "ok" \/ Blacklisted(oldToken)
       THEN /\ last' = For(Throw("refresh", 500, DecodeError(oldToken)), oldToken)
            /\ inflight' = [inflight EXCEPT ![p] = NoReq]
            /\ UNCHANGED blacklist
       ELSE /\ blacklist' = consumeToken(oldToken)
            /\ inflight' = [inflight EXCEPT ![p].pc = "refresh_issue"]
            /\ UNCHANGED last
    /\ UNCHANGED <<users, mail, cookies, now>>

\* refreshAccessToken that catches the decode error as logoutUser does and
\* carries on with expiryTimestamp = 0
refreshAccessToken_swallow(p) ==
    /\ inflight[p].pc = "refresh_blacklist"
    /\ LET oldToken == inflight[p].token IN
       blacklist' = blacklistToken(oldToken,
                       IF DecodeError(oldToken) # "ok" THEN 0 ELSE oldToken.exp)
    /\ inflight' = [inflight EXCEPT ![p].pc = "refresh_issue"]
    /\ UNCHANGED <<users, mail, cookies, now, last>>

\* refreshAccessToken up to the await of blacklistToken; a decode error is
\* thrown to the handler's next(error)
refreshAccessToken(p) ==
    /\ inflight[p].pc = "refresh_blacklist"
    /\ LET oldToken == inflight[p].token IN
       IF DecodeError(oldToken) # "ok"
       THEN /\ last' = For(Throw("refresh", 500, DecodeError(oldToken)), oldToken)
            /\ inflight' = [inflight EXCEPT ![p] = NoReq]
            /\ UNCHANGED blacklist
       ELSE /\ blacklist' = consumeToken(oldToken)
            /\ inflight' = [inflight EXCEPT ![p].pc = "refresh_issue"]
            /\ UNCHANGED last
    /\ UNCHANGED <<users, mail, cookies, now>>

\* refreshAccessToken, lines 158-166: the new pair, the cookie, the result
refreshIssue(p) ==
    /\ inflight[p].pc = "refresh_issue"
    /\ LET tokens == generateTokens(inflight[p].email) IN
       /\ Cardinality(cookies \cup {tokens.refreshToken}) <= MaxTokens
       /\ cookies' = cookies \cup {tokens.refreshToken}
       /\ last' = For([FormatSuccess("refresh", "Access,Refresh token updated successfully")
                          EXCEPT !.accessToken = Some(tokens.accessToken),
                                 !.cookie = Some(tokens.refreshToken)],
                      inflight[p].token)
    /\ inflight' = [inflight EXCEPT ![p] = NoReq]
    /\ UNCHANGED <<users, blacklist, mail, now>>

\* ------------------------------------------------------------------ logout
\* logoutUser whose catch block does not return
logoutUser_noReturn(refreshToken) ==
    /\ blacklist' = blacklistToken(refreshToken,
                        IF DecodeError(refreshToken) # "ok" THEN 0 ELSE refreshToken.exp)
    /\ last' = For(FormatSuccess("logout", "User logged out successfully"), refreshToken)
    /\ UNCHANGED <<users, mail, cookies, now, inflight>>

\* logoutUser that leaves expiryTimestamp at its initial 0
logoutUser_zeroExpiry(refreshToken) ==
    /\ IF DecodeError(refreshToken) # "ok"
       THEN /\ last' = For(FormatSuccess("logout", "User already logged out"), refreshToken)
            /\ UNCHANGED blacklist
       ELSE /\ blacklist' = blacklistToken(refreshToken, 0)
            /\ last' = For(FormatSuccess("logout", "User logged out successfully"),
                            refreshToken)
    /\ UNCHANGED <<users, mail, cookies, now, inflight>>

logoutUser(refreshToken) ==
    /\ IF DecodeError(refreshToken) # "ok"
       THEN /\ last' = For(FormatSuccess("logout", "User already logged out"), refreshToken)
            /\ UNCHANGED blacklist
       ELSE /\ blacklist' = blacklistToken(refreshToken, refreshToken.exp)
            /\ last' = For(FormatSuccess("logout", "User logged out successfully"),
                            refreshToken)
    /\ UNCHANGED <<users, mail, cookies, now, inflight>>

\* cookie is None when the request carries no refreshToken cookie
userLogoutHandler(valid, cookie) ==
    IF ~valid
    THEN BodyInvalid("logout")
    ELSE IF cookie = None
    THEN /\ last' = Response("logout", 200, "User already logged out")
         /\ UNCHANGED <<users, blacklist, mail, cookies, now, inflight>>
    ELSE logoutUser(cookie[1])

\* --------------------------------------------------------- forgot password
\* the promise sendEmail returns resolves (TRUE) or rejects (FALSE)
SendOutcomes == BOOLEAN

\* forgotPassword up to the await of sendEmail: the OTP is drawn, hashed and
\* set on the loaded document, and handed to the notifier
forgotPassword(p, email) ==
    /\ Idle(p)
    /\ LET idx == getUserByEmail(email) IN
       IF idx = 0
       THEN /\ last' = FormatNotFound("forgot", "User not found")
            /\ UNCHANGED <<mail, inflight>>
       ELSE \E otp \in OtpValues, delivered \in SendOutcomes :
            /\ mail' = Some(OtpMail(email, otp))
            /\ IF delivered
               THEN /\ inflight' = [inflight EXCEPT ![p] =
                                      [NoReq EXCEPT !.pc = "forgot_save", !.email = email,
                                                    !.otp = otp,
                                                    !.otpExpires = now + OtpTtl]]
                    /\ UNCHANGED last
               ELSE /\ last' = [Throw("forgot", 500, "sendEmail") EXCEPT !.sent = TRUE]
                    /\ UNCHANGED inflight
    /\ UNCHANGED <<users, blacklist, cookies, now>>

forgotPasswordHandler(p, valid, email) ==
    IF ~valid
    THEN Idle(p) /\ BodyInvalid("forgot")
    ELSE forgotPassword(p, email)

\* forgotPasswordSave that stores the hash without its expiry
forgotPasswordSave_noExpiry(p) ==
    /\ inflight[p].pc = "forgot_save"
    /\ LET idx == getUserByEmail(inflight[p].email) IN
       users' = [users EXCEPT ![idx].otp = Hash(inflight[p].otp)]
    /\ last' = [FormatSuccess("forgot", "OTP sent to your email") EXCEPT !.sent = TRUE]
    /\ inflight' = [inflight EXCEPT ![p] = NoReq]
    /\ UNCHANGED <<blacklist, mail, cookies, now>>

\* forgotPassword, lines 224-226: user.save() and the result
forgotPasswordSave(p) ==
    /\ inflight[p].pc = "forgot_save"
    /\ LET idx == getUserByEmail(inflight[p].email) IN
       users' = [users EXCEPT ![idx].otp = Hash(inflight[p].otp),
                              ![idx].otpExpires = Some(inflight[p].otpExpires)]
    /\ last' = [FormatSuccess("forgot", "OTP sent to your email") EXCEPT !.sent = TRUE]
    /\ inflight' = [inflight EXCEPT ![p] = NoReq]
    /\ UNCHANGED <<blacklist, mail, cookies, now>>

\* ---------------------------------------------------------- reset password
\* the password as the User model stores it on save
StoredPassword(password) == Hash(password)

\* resetOutcome that tests the expiry only when one is stored
resetOutcome_noPresenceCheck(user, otp) ==
    IF IsSome(user.otpExpires) /\ user.otpExpires[1] < now
    THEN "expired"
    ELSE "ok"

\* resetPassword, lines 243-251: bcrypt.compare is not awaited, so isOtpMatch
\* is the pending promise
resetOutcome(user, otp) ==
    IF \/ ~IsSome(user.otpExpires)
       \/ ~IsSome(user.otp)
       \/ user.otpExpires[1] < now
    THEN "expired"
    ELSE LET isOtpMatch == Promise(bcryptCompare(otp, user.otp)) IN
         IF ~Truthy(isOtpMatch) THEN "invalid" ELSE "ok"

resetPassword(email, password, otp) ==
    LET idx == getUserByEmailInsecure(email) IN
    IF idx = 0
    THEN /\ last' = For(FormatNotFound("reset", "User not found"), otp)
         /\ UNCHANGED <<users, blacklist, mail, cookies, now, inflight>>
    ELSE
      LET user == users[idx]
          outcome == resetOutcome(user, otp)
      IN
      IF outcome = "expired"
      THEN /\ last' = For(FormatBadRequest("reset", "OTP expired"), otp)
           /\ UNCHANGED <<users, blacklist, mail, cookies, now, inflight>>
      ELSE IF outcome = "invalid"
      THEN /\ last' = For(FormatBadRequest("reset", "Invalid OTP"), otp)
           /\ UNCHANGED <<users, blacklist, mail, cookies, now, inflight>>
      ELSE /\ users' = [users EXCEPT ![idx].password = StoredPassword(password),
                                     ![idx].otp = None,
                                     ![idx].otpExpires = None]
           /\ last' = For(FormatSuccess("reset", "Password reset successfully"), otp)
           /\ UNCHANGED <<blacklist, mail, cookies, now, inflight>>

resetPasswordHandler(valid, email, password, otp) ==
    IF ~valid
    THEN BodyInvalid("reset")
    ELSE resetPassword(email, password, otp)

\* ------------------------------------------------------------------- clock
\* OTP lifetimes gone by within the current week, and whole weeks gone by
TicksTaken == (now % CookieMaxAge) \div OtpTtl

WeeksTaken == now \div CookieMaxAge

\* time passes between requests and across awaits, by one OTP lifetime or by
\* one cookie lifetime
Tick(d) ==
    /\ d = OtpTtl => TicksTaken < MaxTicks
    /\ d = CookieMaxAge => WeeksTaken < MaxWeeks
    /\ now' = now + d
    /\ UNCHANGED <<users, blacklist, mail, cookies, inflight, last>>

\* signup, verification and login
SignupStep ==
    \/ \E p \in Procs, valid \in BOOLEAN, e \in Emails, pw \in Passwords :
          userSignupHandler(p, valid, e, pw)
    \/ \E p \in Procs : addUserSave(p)

LoginStep ==
    \E valid \in BOOLEAN, e \in EmailInputs, pw \in Passwords :
       userLoginHandler(valid, e, pw)

VerifyStep ==
    \E valid \in BOOLEAN, t \in VTokenInputs, e \in EmailInputs \cup {""} :
       verifyEmailHandler(valid, t, e)

RefreshStep ==
    \/ \E p \in Procs, valid \in BOOLEAN, t \in TokenInputs :
          refreshAccessTokenHandler(p, valid, t)
    \/ \E p \in Procs : refreshAccessToken(p)
    \/ \E p \in Procs : refreshIssue(p)

LogoutStep ==
    \E valid \in BOOLEAN, c \in {None} \cup {Some(t) : t \in TokenInputs} :
       userLogoutHandler(valid, c)

ForgotStep ==
    \/ \E p \in Procs, valid \in BOOLEAN, e \in EmailInputs :
          forgotPasswordHandler(p, valid, e)
    \/ \E p \in Procs : forgotPasswordSave(p)

ResetStep ==
    \E valid \in BOOLEAN, e \in EmailInputs, pw \in Passwords, otp \in OtpInputs :
       resetPasswordHandler(valid, e, pw, otp)

Next ==
    \/ SignupStep
    \/ LoginStep
    \/ VerifyStep
    \/ RefreshStep
    \/ LogoutStep
    \/ ForgotStep
    \/ ResetStep
    \/ \E d \in {OtpTtl, CookieMaxAge} : Tick(d)

\* every route, every interleaving
Spec == Init /\ [][Next]_vars

\* The specifications the properties are checked under: each sends traffic
\* to one group of routes, from the empty store.
NextAccount == SignupStep \/ VerifyStep \/ LoginStep \/ Tick(OtpTtl)

SpecAccount == Init /\ [][NextAccount]_vars

NextSession ==
    \/ SignupStep
    \/ VerifyStep
    \/ LoginStep
    \/ RefreshStep
    \/ LogoutStep
    \/ Tick(CookieMaxAge)

SpecSession == Init /\ [][NextSession]_vars

NextReset == SignupStep \/ ForgotStep \/ ResetStep \/ Tick(OtpTtl)

SpecReset == Init /\ [][NextReset]_vars

NextCredentials ==
    \/ SignupStep
    \/ VerifyStep
    \/ LoginStep
    \/ ForgotStep
    \/ ResetStep
    \/ Tick(CookieMaxAge)

SpecCredentials == Init /\ [][NextCredentials]_vars

\* ================================================================ properties
TheUser(email) == users[FindIdx(email)]

Registered(email) == FindIdx(email) # 0

NoTokens(r) == r.accessToken = None /\ r.cookie = None

\* the blacklist holds the token under the expiry the token carries
Recorded(token) ==
    \E i \in 1..Len(blacklist) : blacklist[i] = [token |-> token, exp |-> token.exp]

\* ----------------------------------------------------------------------- C1
\* the four conditions of a successful reset, as stated: the user exists, an
\* OTP is set, the time is before the stored expiry, the OTP matches the hash
ResetConditions(email, otp) ==
    /\ Registered(email)
    /\ IsSome(TheUser(email).otp)
    /\ IsSome(TheUser(email).otpExpires)
    /\ now < TheUser(email).otpExpires[1]
    /\ bcryptCompare(otp, TheUser(email).otp)

OtpMismatch(email, otp) ==
    /\ Registered(email)
    /\ IsSome(TheUser(email).otp)
    /\ IsSome(TheUser(email).otpExpires)
    /\ ~(TheUser(email).otpExpires[1] < now)
    /\ ~bcryptCompare(otp, TheUser(email).otp)

\* C1: resetPassword succeeds if and only if the user exists, an OTP is set,
\* the time is before the stored expiry and the supplied OTP matches the
\* stored hash; a supplied OTP that does not match yields BadRequest
\* 'Invalid OTP' and never a successful reset.
C1_ResetSucceedsIff ==
    [][\A e \in EmailInputs, pw \in Passwords, otp \in OtpInputs :
         resetPassword(e, pw, otp) =>
           /\ (last'.code = 200) <=> ResetConditions(e, otp)
           /\ OtpMismatch(e, otp) => last'.code = 400 /\ last'.message = "Invalid OTP"]_vars

\* ----------------------------------------------------------------------- C2
\* C2: login on a verified account with a password that does not match fails
\* with Unauthorized, issues no token, sets no cookie and leaves lastLogin as
\* it was; login issues a token pair only when the user exists, is verified
\* and the password matches.
C2_WrongPasswordUnauthorized ==
    [][\A e \in EmailInputs, pw \in Passwords :
         loginUser(e, pw) =>
           /\ (Registered(e) /\ TheUser(e).isVerified /\ ~comparePassword(TheUser(e), pw))
                 => /\ last'.code = 401
                    /\ NoTokens(last')
                    /\ cookies' = cookies
                    /\ users' = users
           /\ (~NoTokens(last') \/ cookies' # cookies)
                 => /\ Registered(e)
                    /\ TheUser(e).isVerified
                    /\ comparePassword(TheUser(e), pw)]_vars

C2_Witness ==
    /\ last.op = "login"
    /\ last.code = 401
    /\ Registered("a@x.com")
    /\ TheUser("a@x.com").isVerified
    /\ ~comparePassword(TheUser("a@x.com"), last.arg[1])

\* ----------------------------------------------------------------------- C3
\* C3: for a registered user whose email is not verified, login yields 403
\* whether the password is correct or not; no token is issued, lastLogin is
\* not updated and the verification email is sent again.
C3_UnverifiedForbidden ==
    [][\A e \in EmailInputs, pw \in Passwords :
         (loginUser(e, pw) /\ Registered(e) /\ ~TheUser(e).isVerified) =>
           /\ last'.code = 403
           /\ NoTokens(last')
           /\ cookies' = cookies
           /\ users' = users
           /\ last'.sent
           /\ mail' = Some(VerificationMail(e, TheUser(e).verificationToken))]_vars

C3_Witness ==
    /\ last.op = "login"
    /\ last.code = 403
    /\ Registered("a@x.com")
    /\ ~TheUser("a@x.com").isVerified
    /\ comparePassword(TheUser("a@x.com"), last.arg[1])
    /\ mail = Some(VerificationMail("a@x.com", TheUser("a@x.com").verificationToken))

\* ----------------------------------------------------------------------- C4
\* C4: refreshAccessToken has the old token in the blacklist, under the
\* expiry decoded from it, before the new pair is generated and whenever it
\* has returned successfully.
C4_BlacklistedBeforeIssue ==
    /\ \A p \in Procs : inflight[p].pc = "refresh_issue" => Recorded(inflight[p].token)
    /\ (last.op = "refresh" /\ last.code = 200) => Recorded(last.arg[1])

C4_Witness ==
    /\ last.op = "refresh"
    /\ last.code = 200
    /\ IsSome(last.cookie)
    /\ Recorded(last.arg[1])

\* ----------------------------------------------------------------------- C5
BlacklistedAfter(token) == \E i \in 1..Len(blacklist') : blacklist'[i].token = token

\* C5: once a refresh token has been consumed by a successful refresh or
\* blacklisted by a logout it stays blacklisted, and a later refresh attempt
\* with it is turned away before the service runs while a later logout with
\* it yields no token pair.
C5_ConsumedTokenRejected ==
    [][/\ \A p \in Procs : refreshIssue(p) => BlacklistedAfter(inflight[p].token)
       /\ \A t \in TokenInputs :
            /\ (DecodeError(t) = "ok" /\ logoutUser(t)) => BlacklistedAfter(t)
            /\ Blacklisted(t) =>
                 /\ BlacklistedAfter(t)
                 /\ logoutUser(t) => NoTokens(last') /\ cookies' = cookies
                 /\ \A p \in Procs, valid \in BOOLEAN :
                      refreshAccessTokenHandler(p, valid, t) =>
                         /\ last'.code = 401
                         /\ NoTokens(last')
                         /\ inflight' = inflight
                         /\ cookies' = cookies]_vars

C5_Witness ==
    /\ last.op = "refresh"
    /\ last.code = 401
    /\ Blacklisted(last.arg[1])
    /\ DecodeError(last.arg[1]) = "ok"

\* ----------------------------------------------------------------------- C6
\* C6: verifyEmail with the user's stored verification token succeeds once:
\* that call sets isVerified and clears the token, and the same call made
\* again yields BadRequest 'Invalid verification link' and leaves the user
\* record as it is.
C6_VerifyOnce ==
    [][\A e \in Emails, t \in VTokenValues :
         (verifyEmail(t, e) /\ Registered(e)) =>
           IF ~TheUser(e).isVerified /\ TheUser(e).verificationToken = t
           THEN /\ last'.code = 200
                /\ users'[FindIdx(e)].isVerified
                /\ users'[FindIdx(e)].verificationToken = ""
           ELSE /\ last'.code = 400
                /\ last'.message = "Invalid verification link"
                /\ users' = users]_vars

C6_Witness ==
    /\ last.op = "verify"
    /\ last.code = 400
    /\ last.arg \in {Some(t) : t \in VTokenValues}
    /\ Registered("a@x.com")
    /\ TheUser("a@x.com").isVerified

\* ----------------------------------------------------------------------- C7
\* C7: however concurrent signups for one email interleave, the store never
\* holds more than one user for the email, and the call that loses the race
\* is answered with status 400 without a second record being created.
C7_OneUserPerEmail ==
    /\ [](\A e \in Emails : Cardinality(UserIdx(e)) <= 1)
    /\ [][\A p \in Procs :
            (addUserSave(p) /\ DuplicateKey(inflight[p].email)) =>
               /\ HttpStatus(last') = 400
               /\ users' = users]_vars

C7_Witness ==
    /\ last.op = "signup"
    /\ last.message = "MongoError"
    /\ Len(users) = 1

\* ----------------------------------------------------------------------- C8
\* C8: a signup for an email that a previous signup registered is answered
\* with 'Account already exists' (400); it leaves the stored user as it is
\* and sends no verification email.
C8_SecondSignupRejected ==
    [][\A p \in Procs, e \in Emails, pw \in Passwords :
         (addUser(p, e, pw) /\ Registered(e)) =>
           /\ last'.code = 400
           /\ last'.message = "Account already exists with this email."
           /\ ~last'.sent
           /\ mail' = mail
           /\ users' = users
           /\ inflight' = inflight]_vars

C8_Witness ==
    /\ last.op = "signup"
    /\ last.code = 400
    /\ last.message = "Account already exists with this email."
    /\ Len(users) = 1

\* ----------------------------------------------------------------------- C9
\* one of the conditions of a successful reset is violated
ResetViolated(email, otp) ==
    \/ ~Registered(email)
    \/ ~IsSome(TheUser(email).otp)
    \/ ~IsSome(TheUser(email).otpExpires)
    \/ TheUser(email).otpExpires[1] < now
    \/ ~bcryptCompare(otp, TheUser(email).otp)

\* C9: a resetPassword call that must fail (user not found, no OTP set, OTP
\* expired or OTP mismatch) leaves the user record unchanged.
C9_FailedResetLeavesUser ==
    [][\A e \in EmailInputs, pw \in Passwords, otp \in OtpInputs :
         (resetPassword(e, pw, otp) /\ ResetViolated(e, otp)) => users' = users]_vars

\* ---------------------------------------------------------------------- C10
\* C10: logout with a refresh token that does not decode (malformed, bad
\* signature or expired) returns success 'User already logged out' and
\* leaves the blacklist unchanged; the handler without a refresh-token cookie
\* answers 200 and leaves the blacklist unchanged.
C10_UndecodableLogout ==
    [][/\ \A t \in TokenInputs :
            (DecodeError(t) # "ok" /\ logoutUser(t)) =>
               /\ last'.code = 200
               /\ last'.message = "User already logged out"
               /\ blacklist' = blacklist
       /\ userLogoutHandler(TRUE, None) =>
               /\ HttpStatus(last') = 200
               /\ blacklist' = blacklist]_vars

C10_Witness ==
    /\ last.op = "logout"
    /\ last.message = "User already logged out"
    /\ IsSome(last.arg)
    /\ DecodeError(last.arg[1]) = "TokenExpiredError"

\* ---------------------------------------------------------------------- C11
EntriesAfter(token) == {i \in 1..Len(blacklist') : blacklist'[i].token = token}

\* C11: logout with a valid, unexpired refresh token returns success and
\* leaves exactly one blacklist entry for the token, under the expiry the
\* token carries; when the token is already blacklisted (by an earlier logout
\* or by a refresh) the blacklist is left as it is.
C11_LogoutOneEntry ==
    [][\A t \in TokenInputs :
         (DecodeError(t) = "ok" /\ logoutUser(t)) =>
           /\ last'.code = 200
           /\ last'.message = "User logged out successfully"
           /\ Cardinality(EntriesAfter(t)) = 1
           /\ \A i \in EntriesAfter(t) : blacklist'[i].exp = t.exp
           /\ Blacklisted(t) => blacklist' = blacklist]_vars

C11_Witness ==
    /\ last.op = "logout"
    /\ last.message = "User logged out successfully"
    /\ Recorded(last.arg[1])
    /\ Cardinality({i \in 1..Len(blacklist) : blacklist[i].token = last.arg[1]}) = 1

\* ---------------------------------------------------------------------- C12
\* C12: a failure of the notifier never aborts the operation that sent the
\* mail and never becomes its error: forgotPassword goes on to save the OTP
\* hash and expiry whether or not the send succeeded.
C12_SendFailureIgnored ==
    [][\A p \in Procs, e \in Emails :
         (forgotPassword(p, e) /\ Registered(e)) =>
           /\ ~last'.thrown
           /\ inflight'[p].pc = "forgot_save"]_vars

\* ---------------------------------------------------------------------- C13
\* C13: signup stores the user unverified with a verification token; verifying
\* with that token sets isVerified and clears the token; login with the
\* password then succeeds, returns the access token in the payload, sets
\* lastLogin on the stored user and hands the refresh token over in the
\* cookie.
C13_SignupVerifyLogin ==
    [][/\ \A p \in Procs :
            (addUserSave(p) /\ ~DuplicateKey(inflight[p].email)) =>
               /\ ~users'[Len(users')].isVerified
               /\ users'[Len(users')].verificationToken \in VTokenValues
               /\ users'[Len(users')].email = inflight[p].email
       /\ \A e \in Emails :
            (Registered(e) /\ ~TheUser(e).isVerified
               /\ verifyEmail(TheUser(e).verificationToken, e)) =>
               /\ last'.code = 200
               /\ users'[FindIdx(e)].isVerified
               /\ users'[FindIdx(e)].verificationToken = ""
       /\ \A e \in Emails, pw \in Passwords :
            (Registered(e) /\ TheUser(e).isVerified /\ comparePassword(TheUser(e), pw)
               /\ loginUser(e, pw)) =>
               /\ last'.code = 200
               /\ last'.accessToken = Some(AccessToken(e))
               /\ last'.cookie = Some(RefreshToken(e))
               /\ RefreshToken(e) \in cookies'
               /\ users'[FindIdx(e)].lastLogin = Some(now)]_vars

C13_Witness ==
    /\ last.op = "login"
    /\ last.code = 200
    /\ IsSome(last.accessToken)
    /\ IsSome(last.cookie)
    /\ Registered("a@x.com")
    /\ TheUser("a@x.com").isVerified
    /\ TheUser("a@x.com").verificationToken = ""
    /\ TheUser("a@x.com").lastLogin = Some(now)
    /\ comparePassword(TheUser("a@x.com"), last.arg[1])

\* ---------------------------------------------------------------------- C14
\* C14: in every state of the user store, a user has a non-empty
\* verificationToken if and only if isVerified is false.
C14_TokenIffUnverified ==
    \A i \in 1..Len(users) : (users[i].verificationToken # "") <=> ~users[i].isVerified

C14_Witness ==
    /\ last.op = "verify"
    /\ last.code = 200
    /\ Registered("a@x.com")
    /\ TheUser("a@x.com").isVerified
    /\ TheUser("a@x.com").verificationToken = ""

\* ---------------------------------------------------------------------- C15
\* C15: in every state of the user store, a user's OTP hash and OTP expiry
\* are both set or both absent.
C15_OtpFieldsTogether ==
    \A i \in 1..Len(users) : IsSome(users[i].otp) <=> IsSome(users[i].otpExpires)

C15_Witness ==
    /\ last.op = "forgot"
    /\ last.code = 200
    /\ Registered("a@x.com")
    /\ IsSome(TheUser("a@x.com").otp)
    /\ IsSome(TheUser("a@x.com").otpExpires)

\* ---------------------------------------------------------------------- C16
\* C16: once a user is verified, no later verifyEmail call for the email, with
\* any token value (the empty string included), succeeds or writes the user
\* record, and no operation sets isVerified back to false.
C16_VerifiedForGood ==
    [][/\ \A e \in Emails, t \in VTokenInputs :
            (Registered(e) /\ TheUser(e).isVerified /\ verifyEmail(t, e)) =>
               /\ last'.code # 200
               /\ users' = users
       /\ \A i \in 1..Len(users) : users[i].isVerified => users'[i].isVerified]_vars

\* ---------------------------------------------------------------------- C17
\* C17: when forgotPassword hands an OTP to the notifier, the user record
\* already holds the hash of that OTP and its expiry.
C17_SavedBeforeSent ==
    [][\A p \in Procs, e \in Emails :
         (forgotPassword(p, e) /\ Registered(e)) =>
           \E otp \in OtpValues :
              /\ mail' = Some(OtpMail(e, otp))
              /\ users'[FindIdx(e)].otp = Hash(otp)
              /\ users'[FindIdx(e)].otpExpires = Some(now + OtpTtl)]_vars

\* ---------------------------------------------------------------------- C18
EntriesFor(token) == {i \in 1..Len(blacklist) : blacklist[i].token = token}

\* C18: a refresh that has passed the middleware is not stopped by another
\* refresh having blacklisted the same token first: it goes on to issue its
\* own pair, and the blacklist keeps exactly one entry for the token, under
\* the token's own expiry.
C18_ConcurrentRefresh ==
    /\ [](\A p \in Procs :
            inflight[p].pc = "refresh_issue" =>
               /\ Cardinality(EntriesFor(inflight[p].token)) = 1
               /\ Recorded(inflight[p].token))
    /\ [][\A p \in Procs :
            (refreshAccessToken(p) /\ Blacklisted(inflight[p].token)
               /\ DecodeError(inflight[p].token) = "ok") =>
               /\ inflight'[p].pc = "refresh_issue"
               /\ blacklist' = blacklist]_vars

\* one refresh has returned its pair and the other, holding the same token,
\* is about to return its own
C18_Witness ==
    /\ last.op = "refresh"
    /\ last.code = 200
    /\ IsSome(last.cookie)
    /\ \E p \in Procs :
          /\ inflight[p].pc = "refresh_issue"
          /\ last.arg = Some(inflight[p].token)
          /\ Cardinality(EntriesFor(inflight[p].token)) = 1

\* ---------------------------------------------------------------------- C19
\* C19: a successful resetPassword clears both OTP fields, and while they are
\* clear every resetPassword for the user, with any OTP, fails with BadRequest
\* 'OTP expired' and leaves the user record (the password included) as it is.
C19_OtpSingleUse ==
    [][\A e \in Emails, pw \in Passwords, otp \in OtpInputs :
         (resetPassword(e, pw, otp) /\ Registered(e)) =>
           /\ last'.code = 200 =>
                 /\ users'[FindIdx(e)].otp = None
                 /\ users'[FindIdx(e)].otpExpires = None
           /\ ~IsSome(TheUser(e).otp) =>
                 /\ last'.code = 400
                 /\ last'.message = "OTP expired"
                 /\ users' = users]_vars

\* a reset with the OTP the notifier was handed, refused because the user
\* holds no OTP, before any expiry could have passed
C19_Witness ==
    /\ last.op = "reset"
    /\ last.code = 400
    /\ last.message = "OTP expired"
    /\ Registered("a@x.com")
    /\ ~IsSome(TheUser("a@x.com").otp)
    /\ mail = Some(OtpMail("a@x.com", last.arg[1]))
    /\ now = 0

\* ---------------------------------------------------------------------- C20
\* C20: when the old refresh token does not decode, refreshAccessToken throws
\* the decode error to its caller: no token pair is generated, no cookie is
\* set and the blacklist is unchanged.
C20_DecodeErrorPropagates ==
    [][\A p \in Procs :
         (refreshAccessToken(p) /\ DecodeError(inflight[p].token) # "ok") =>
           /\ last'.thrown
           /\ last'.message = DecodeError(inflight[p].token)
           /\ NoTokens(last')
           /\ inflight'[p].pc = "idle"
           /\ cookies' = cookies
           /\ blacklist' = blacklist]_vars

C20_Witness ==
    /\ last.op = "refresh"
    /\ last.thrown
    /\ last.message = "TokenExpiredError"
    /\ ~Blacklisted(last.arg[1])
====
